---- MODULE Spec2Model ----
(***************************************************************************)
(* Model of src/core/thread-optimizer.js (daily-voice): the recovery       *)
(* parser, the length validator, the splitter, the merger, the collapse    *)
(* decision and the orchestrator optimizeThread.                           *)
(*                                                                         *)
(* A JavaScript string is a sequence of one-character strings.  Indices    *)
(* in the string helpers are 0-based as in JavaScript.  The                *)
(* character named TICK stands for the backtick.                           *)
(***************************************************************************)
EXTENDS Integers, Sequences, FiniteSets, TLC

----------------------------------------------------------------------------
(* JavaScript string primitives                                            *)

SP == " "
NL == "\n"
DOT == "."
COMMA == ","
QUOTE == "\""
BSLASH == "\\"
LBRACK == "["
RBRACK == "]"
TICK == "BACKTICK"
DIGIT == "1"

\* the whitespace characters of the inputs (String.prototype.trim, regex \s,
\* JSON whitespace)
WS == {SP, NL}

Max2(a, b) == IF a >= b THEN a ELSE b
Min2(a, b) == IF a <= b THEN a ELSE b
SetMax(S) == CHOOSE x \in S : \A y \in S : y <= x
SetMin(S) == CHOOSE x \in S : \A y \in S : x <= y

\* n copies of the character c
Rep(c, n) == [i \in 1..n |-> c]

\* String.prototype.substring(start, end): both clamped to [0, length],
\* swapped when start > end
Substring(s, a, b) ==
  LET ca == Max2(0, Min2(a, Len(s)))
      cb == Max2(0, Min2(b, Len(s)))
      lo == Min2(ca, cb)
      hi == Max2(ca, cb)
  IN  SubSeq(s, lo + 1, hi)

\* String.prototype.slice(start) / substring(start) to the end
SubstringFrom(s, a) == Substring(s, a, Len(s))

\* String.prototype.trim()
Trim(s) ==
  IF \A i \in 1..Len(s) : s[i] \in WS THEN <<>>
  ELSE LET first == CHOOSE i \in 1..Len(s) :
                      s[i] \notin WS /\ \A j \in 1..(i - 1) : s[j] \in WS
           last  == CHOOSE i \in 1..Len(s) :
                      s[i] \notin WS /\ \A j \in (i + 1)..Len(s) : s[j] \in WS
       IN  SubSeq(s, first, last)

\* pat occurs in s at 0-based index i
MatchAt(s, pat, i) ==
  /\ i >= 0
  /\ i + Len(pat) <= Len(s)
  /\ \A k \in 1..Len(pat) : s[i + k] = pat[k]

\* String.prototype.lastIndexOf(pat, fromIndex): the largest index <= fromIndex
\* (clamped to [0, length]) at which pat occurs, -1 when there is none
LastIndexOf(s, pat, from) ==
  LET top  == Max2(0, Min2(from, Len(s) - Len(pat)))
      hits == {i \in 0..top : MatchAt(s, pat, i)}
  IN  IF hits = {} THEN -1 ELSE SetMax(hits)

\* String.prototype.indexOf(pat): the smallest index at which pat occurs
IndexOf(s, pat) ==
  LET hits == {i \in 0..(Len(s) - Len(pat)) : MatchAt(s, pat, i)}
  IN  IF hits = {} THEN -1 ELSE SetMin(hits)

StartsWith(s, pat) == MatchAt(s, pat, 0)
EndsWith(s, pat) == MatchAt(s, pat, Len(s) - Len(pat))

\* Array.prototype.join(' ')
RECURSIVE JoinSpace(_)
JoinSpace(arr) ==
  IF arr = <<>> THEN <<>>
  ELSE IF Len(arr) = 1 THEN arr[1]
  ELSE arr[1] \o <<SP>> \o JoinSpace(Tail(arr))

\* concatenation of all elements
RECURSIVE Flatten(_)
Flatten(arr) == IF arr = <<>> THEN <<>> ELSE arr[1] \o Flatten(Tail(arr))

\* s with every whitespace character removed
StripWS(s) == SelectSeq(s, LAMBDA c : c \notin WS)

----------------------------------------------------------------------------
(* smartSplit: thread-optimizer.js 247-286                                 *)

\* lastPeriod > maxLength * 0.6, in integers
Above60(idx, maxLength) == 10 * idx > 6 * maxLength

\* the split index one iteration of the while loop chooses (lines 257-275)
SplitIndex(remaining, maxLength) ==
  LET lastPeriod == LastIndexOf(remaining, <<DOT, SP>>, maxLength)
      lastComma  == LastIndexOf(remaining, <<COMMA, SP>>, maxLength)
      lastSpace  == LastIndexOf(remaining, <<SP>>, maxLength)
  IN  IF Above60(lastPeriod, maxLength) THEN lastPeriod + 1
      ELSE IF Above60(lastComma, maxLength) THEN lastComma + 1
      ELSE IF lastSpace > 0 THEN lastSpace
      ELSE maxLength

\* mutant of SplitLoop: the remainder starts one character after the cut
RECURSIVE SplitLoopSkipsChar(_, _, _)
SplitLoopSkipsChar(chunks, remaining, maxLength) ==
  IF Len(remaining) > maxLength
  THEN LET splitIndex == SplitIndex(remaining, maxLength)
           chunk == Trim(Substring(remaining, 0, splitIndex))
           rest  == Trim(SubstringFrom(remaining, splitIndex + 1))
       IN  IF rest = remaining
           THEN [chunks |-> chunks, hang |-> TRUE]
           ELSE SplitLoopSkipsChar(Append(chunks, chunk), rest, maxLength)
  ELSE [chunks |-> IF Len(remaining) > 0 THEN Append(chunks, remaining) ELSE chunks,
        hang |-> FALSE]

\* the while loop (lines 255-279) and the final push (281-283).  The loop
\* state is `remaining` alone: an iteration that leaves it unchanged repeats
\* forever, which is reported as hang = TRUE.
RECURSIVE SplitLoop(_, _, _)
SplitLoop(chunks, remaining, maxLength) ==
  IF Len(remaining) > maxLength
  THEN LET splitIndex == SplitIndex(remaining, maxLength)
           chunk == Trim(Substring(remaining, 0, splitIndex))
           rest  == Trim(SubstringFrom(remaining, splitIndex))
       IN  IF rest = remaining
           THEN [chunks |-> chunks, hang |-> TRUE]
           ELSE SplitLoop(Append(chunks, chunk), rest, maxLength)
  ELSE [chunks |-> IF Len(remaining) > 0 THEN Append(chunks, remaining) ELSE chunks,
        hang |-> FALSE]

smartSplitRun(text, maxLength) ==
  IF Len(text) <= maxLength
  THEN [chunks |-> <<text>>, hang |-> FALSE]
  ELSE SplitLoop(<<>>, text, maxLength)

smartSplit(text, maxLength) == smartSplitRun(text, maxLength).chunks

----------------------------------------------------------------------------
(* validateTweetLengths: thread-optimizer.js 145-179                       *)

MAX_LENGTH == 280
MIN_RECOMMENDED == 100

\* one entry of `analysis` (lines 150-169); the two warnings are kept as flags
AnalyzeTweet(tweets, i) ==
  [index    |-> i - 1,
   length   |-> Len(tweets[i]),
   tooLong  |-> Len(tweets[i]) > MAX_LENGTH,
   tooShort |-> Len(tweets[i]) < MIN_RECOMMENDED /\ (i - 1) < Len(tweets) - 1]

validateTweetLengths(tweets) ==
  LET analysis == [i \in 1..Len(tweets) |-> AnalyzeTweet(tweets, i)]
      hasIssues == \E i \in 1..Len(tweets) : analysis[i].tooLong \/ analysis[i].tooShort
  IN  [valid |-> ~hasIssues, tweets |-> tweets, analysis |-> analysis]

----------------------------------------------------------------------------
(* mergeShortTweets: thread-optimizer.js 187-216                           *)

MERGE_LIMIT == 280

\* mutant of MergeLoop: a merge pushes the current tweet alone and skips both
RECURSIVE MergeLoopDropsNext(_, _, _, _)
MergeLoopDropsNext(tweets, minLength, i, merged) ==
  IF i < Len(tweets)
  THEN LET current == tweets[i + 1]
       IN  IF Len(current) < minLength /\ i < Len(tweets) - 1
              /\ Len(current \o <<SP>> \o tweets[i + 2]) <= 280
           THEN MergeLoopDropsNext(tweets, minLength, i + 2, Append(merged, current))
           ELSE MergeLoopDropsNext(tweets, minLength, i + 1, Append(merged, current))
  ELSE merged

\* mutant of MergeLoop: a merge joins the two tweets without the space
RECURSIVE MergeLoopNoSpace(_, _, _, _)
MergeLoopNoSpace(tweets, minLength, i, merged) ==
  IF i < Len(tweets)
  THEN LET current == tweets[i + 1]
       IN  IF Len(current) < minLength /\ i < Len(tweets) - 1
              /\ Len(current \o <<SP>> \o tweets[i + 2]) <= 280
           THEN MergeLoopNoSpace(tweets, minLength, i + 2,
                                 Append(merged, current \o tweets[i + 2]))
           ELSE MergeLoopNoSpace(tweets, minLength, i + 1, Append(merged, current))
  ELSE merged

\* the while loop from scan position i (0-based), lines 193-213
RECURSIVE MergeLoop(_, _, _, _)
MergeLoop(tweets, minLength, i, merged) ==
  IF i < Len(tweets)
  THEN LET current == tweets[i + 1]
       IN  IF Len(current) < minLength /\ i < Len(tweets) - 1
              /\ Len(current \o <<SP>> \o tweets[i + 2]) <= MERGE_LIMIT
           THEN MergeLoop(tweets, minLength, i + 2,
                          Append(merged, current \o <<SP>> \o tweets[i + 2]))
           ELSE MergeLoop(tweets, minLength, i + 1, Append(merged, current))
  ELSE merged

mergeShortTweets(tweets, minLength) ==
  IF Len(tweets) = 1 THEN tweets ELSE MergeLoop(tweets, minLength, 0, <<>>)

----------------------------------------------------------------------------
(* splitLongTweets: thread-optimizer.js 223-239                            *)

SPLIT_MAX_LENGTH == 280

RECURSIVE splitLongTweets(_)
splitLongTweets(tweets) ==
  IF tweets = <<>> THEN <<>>
  ELSE (IF Len(tweets[1]) <= SPLIT_MAX_LENGTH
        THEN <<tweets[1]>>
        ELSE smartSplit(tweets[1], SPLIT_MAX_LENGTH))
       \o splitLongTweets(Tail(tweets))

----------------------------------------------------------------------------
(* shouldBeThread: thread-optimizer.js 293-330                             *)

COMPRESS_TOTAL == 240
COMPRESS_PAIR_TOTAL == 260

\* mutant of shouldBeThread: the pair threshold is applied to any tweet count
shouldBeThreadAnyCount(tweets) ==
  LET totalChars == Len(JoinSpace(tweets))
      tweetCount == Len(tweets)
  IN  IF tweetCount = 1
      THEN [shouldBeThread |-> FALSE, hasAlternative |-> FALSE, alternativeSingle |-> <<>>]
      ELSE IF totalChars <= 260
      THEN [shouldBeThread |-> FALSE, hasAlternative |-> TRUE,
            alternativeSingle |-> JoinSpace(tweets)]
      ELSE [shouldBeThread |-> TRUE, hasAlternative |-> FALSE, alternativeSingle |-> <<>>]

\* hasAlternative stands for the presence of the alternativeSingle property
shouldBeThread(tweets) ==
  LET totalChars == Len(JoinSpace(tweets))
      tweetCount == Len(tweets)
  IN  IF tweetCount = 1
      THEN [shouldBeThread |-> FALSE, hasAlternative |-> FALSE, alternativeSingle |-> <<>>]
      ELSE IF totalChars <= COMPRESS_TOTAL
      THEN [shouldBeThread |-> FALSE, hasAlternative |-> TRUE,
            alternativeSingle |-> JoinSpace(tweets)]
      ELSE IF tweetCount = 2 /\ totalChars <= COMPRESS_PAIR_TOTAL
      THEN [shouldBeThread |-> FALSE, hasAlternative |-> TRUE,
            alternativeSingle |-> JoinSpace(tweets)]
      ELSE [shouldBeThread |-> TRUE, hasAlternative |-> FALSE, alternativeSingle |-> <<>>]

----------------------------------------------------------------------------
(* JSON.parse and JSON.stringify on the characters of the inputs:          *)
(* letters x y z j s o n, the digit 1, space, newline and . , " \ [ ] `    *)
(* With these characters a JSON text is built from strings, numbers made   *)
(* of the digit (with an optional fraction) and arrays; no literal and no  *)
(* exponent can be spelled.                                                *)

\* the token a string literal is replaced by in the skeleton of a JSON text
STR == "STRING"

\* the characters that may follow a backslash inside a JSON string literal
EscapeChars == {QUOTE, BSLASH, "/", "n"}

\* the character an escape sequence denotes
EscapeValue(c) == IF c = "n" THEN NL ELSE c

\* the elements of a finite set of integers in increasing order
RECURSIVE SortedSeq(_)
SortedSeq(S) ==
  IF S = {} THEN <<>> ELSE <<SetMin(S)>> \o SortedSeq(S \ {SetMin(S)})

\* the number of consecutive backslashes that end just before position i (1-based)
BackslashRun(s, i) ==
  CHOOSE k \in 0..(i - 1) :
    /\ \A m \in 1..k : s[i - m] = BSLASH
    /\ (k = i - 1 \/ s[i - k - 1] # BSLASH)

\* the positions of the quotes that open or close a string literal
UnescapedQuotes(s) ==
  {i \in 1..Len(s) : s[i] = QUOTE /\ BackslashRun(s, i) % 2 = 0}

\* 1-based position of the first backslash of s, 0 when there is none
FirstBackslash(s) ==
  LET bs == {i \in 1..Len(s) : s[i] = BSLASH}
  IN  IF bs = {} THEN 0 ELSE SetMin(bs)

\* every escape sequence of a string literal's body is one JSON allows
RECURSIVE ValidEscapes(_)
ValidEscapes(body) ==
  LET i == FirstBackslash(body)
  IN  IF i = 0 THEN TRUE
      ELSE /\ i < Len(body)
           /\ body[i + 1] \in EscapeChars
           /\ ValidEscapes(SubSeq(body, i + 2, Len(body)))

\* a string literal's body: no raw control character, only valid escapes
ValidBody(body) ==
  /\ \A i \in 1..Len(body) : body[i] # NL
  /\ ValidEscapes(body)

\* the string a valid literal body denotes
RECURSIVE Unescape(_)
Unescape(body) ==
  LET i == FirstBackslash(body)
  IN  IF i = 0 THEN body
      ELSE SubSeq(body, 1, i - 1) \o <<EscapeValue(body[i + 1])>>
           \o Unescape(SubSeq(body, i + 2, Len(body)))

\* the bodies of the string literals, q being the sorted quote positions
LiteralBodies(s, q) ==
  [k \in 1..(Len(q) \div 2) |-> SubSeq(s, q[2 * k - 1] + 1, q[2 * k] - 1)]

\* the text with each string literal replaced by the token STR
RECURSIVE SkeletonFrom(_, _, _)
SkeletonFrom(s, q, k) ==
  IF 2 * k - 1 > Len(q)
  THEN SubSeq(s, (IF k = 1 THEN 1 ELSE q[2 * k - 2] + 1), Len(s))
  ELSE SubSeq(s, (IF k = 1 THEN 1 ELSE q[2 * k - 2] + 1), q[2 * k - 1] - 1)
       \o <<STR>> \o SkeletonFrom(s, q, k + 1)

\* the first position >= p of sk that holds no whitespace (Len(sk)+1 if none)
SkipWS(sk, p) ==
  SetMin({i \in p..Len(sk) : sk[i] \notin WS} \cup {Len(sk) + 1})

\* the first position >= p of sk that holds no digit (Len(sk)+1 if none)
SkipDigits(sk, p) ==
  SetMin({i \in p..Len(sk) : sk[i] # DIGIT} \cup {Len(sk) + 1})

ParseFail == [ok |-> FALSE, next |-> 0, isString |-> FALSE, isArray |-> FALSE,
              allStrings |-> FALSE]

\* recursive descent over the skeleton: a value starting at or after p
RECURSIVE ParseValue(_, _), ParseElems(_, _, _)
ParseValue(sk, p) ==
  LET p1 == SkipWS(sk, p)
  IN  IF p1 > Len(sk) THEN ParseFail
      ELSE IF sk[p1] = STR
      THEN [ok |-> TRUE, next |-> p1 + 1, isString |-> TRUE, isArray |-> FALSE,
            allStrings |-> FALSE]
      ELSE IF sk[p1] = DIGIT
      THEN LET intEnd == SkipDigits(sk, p1)
               fracEnd == SkipDigits(sk, intEnd + 1)
           IN  IF intEnd <= Len(sk) /\ sk[intEnd] = DOT
               THEN IF fracEnd > intEnd + 1
                    THEN [ok |-> TRUE, next |-> fracEnd, isString |-> FALSE,
                          isArray |-> FALSE, allStrings |-> FALSE]
                    ELSE ParseFail
               ELSE [ok |-> TRUE, next |-> intEnd, isString |-> FALSE,
                     isArray |-> FALSE, allStrings |-> FALSE]
      ELSE IF sk[p1] = LBRACK
      THEN LET p2 == SkipWS(sk, p1 + 1)
           IN  IF p2 <= Len(sk) /\ sk[p2] = RBRACK
               THEN [ok |-> TRUE, next |-> p2 + 1, isString |-> FALSE,
                     isArray |-> TRUE, allStrings |-> TRUE]
               ELSE ParseElems(sk, p1 + 1, TRUE)
      ELSE ParseFail

\* the elements of an array from p on, up to and including its closing bracket
ParseElems(sk, p, allStr) ==
  LET v  == ParseValue(sk, p)
      p2 == SkipWS(sk, v.next)
  IN  IF ~v.ok \/ p2 > Len(sk) THEN ParseFail
      ELSE IF sk[p2] = COMMA THEN ParseElems(sk, p2 + 1, allStr /\ v.isString)
      ELSE IF sk[p2] = RBRACK
      THEN [ok |-> TRUE, next |-> p2 + 1, isString |-> FALSE, isArray |-> TRUE,
            allStrings |-> allStr /\ v.isString]
      ELSE ParseFail

JSONThrow == [threw |-> TRUE, isStringArray |-> FALSE, value |-> <<>>]

\* JSON.parse(text): threw = a SyntaxError; isStringArray = the value is an
\* array whose elements are all strings (Array.isArray && every typeof string),
\* value = that array
JSONParse(text) ==
  LET q == SortedSeq(UnescapedQuotes(text))
  IN  IF Len(q) % 2 = 1 THEN JSONThrow
      ELSE LET bodies == LiteralBodies(text, q)
               sk == SkeletonFrom(text, q, 1)
               v == ParseValue(sk, 1)
           IN  IF \E k \in 1..Len(bodies) : ~ValidBody(bodies[k]) THEN JSONThrow
               ELSE IF ~v.ok \/ SkipWS(sk, v.next) <= Len(sk) THEN JSONThrow
               ELSE IF v.isArray /\ v.allStrings
               THEN [threw |-> FALSE, isStringArray |-> TRUE,
                     value |-> [k \in 1..Len(bodies) |-> Unescape(bodies[k])]]
               ELSE [threw |-> FALSE, isStringArray |-> FALSE, value |-> <<>>]

\* 1-based position of the first character JSON.stringify escapes, 0 if none
FirstSpecial(s) ==
  LET sp == {i \in 1..Len(s) : s[i] \in {QUOTE, BSLASH, NL}}
  IN  IF sp = {} THEN 0 ELSE SetMin(sp)

RECURSIVE EscapeString(_)
EscapeString(s) ==
  LET i == FirstSpecial(s)
  IN  IF i = 0 THEN s
      ELSE SubSeq(s, 1, i - 1) \o <<BSLASH, (IF s[i] = NL THEN "n" ELSE s[i])>>
           \o EscapeString(SubSeq(s, i + 1, Len(s)))

RECURSIVE StringifyElems(_)
StringifyElems(arr) ==
  IF arr = <<>> THEN <<>>
  ELSE <<QUOTE>> \o EscapeString(arr[1]) \o <<QUOTE>>
       \o (IF Len(arr) > 1 THEN <<COMMA>> ELSE <<>>) \o StringifyElems(Tail(arr))

\* JSON.stringify of an array of strings
JSONStringify(arr) == <<LBRACK>> \o StringifyElems(arr) \o <<RBRACK>>

----------------------------------------------------------------------------
(* extractJSON: thread-optimizer.js 16-30                                  *)

FENCE == <<TICK, TICK, TICK>>

\* cleaned.replace(/^```json?\s*/i, ''): the inputs hold lowercase letters only
StripFenceStart(cleaned) ==
  IF StartsWith(cleaned, FENCE \o <<"j", "s", "o">>)
  THEN LET afterN == IF MatchAt(cleaned, <<"n">>, 6) THEN 7 ELSE 6
       IN  SubSeq(cleaned, SkipWS(cleaned, afterN + 1), Len(cleaned))
  ELSE cleaned

\* cleaned.replace(/```\s*$/, ''): three backticks followed only by whitespace
StripFenceEnd(cleaned) ==
  LET last == IF \A i \in 1..Len(cleaned) : cleaned[i] \in WS THEN 0
              ELSE CHOOSE i \in 1..Len(cleaned) :
                     cleaned[i] \notin WS /\ \A j \in (i + 1)..Len(cleaned) : cleaned[j] \in WS
  IN  IF last >= 3 /\ MatchAt(cleaned, FENCE, last - 3)
      THEN SubSeq(cleaned, 1, last - 3)
      ELSE cleaned

\* found = FALSE stands for the null result
extractJSON(response) ==
  LET cleaned == StripFenceEnd(StripFenceStart(Trim(response)))
      first == IndexOf(cleaned, <<LBRACK>>)
      last  == LastIndexOf(cleaned, <<RBRACK>>, Len(cleaned))
  IN  IF first >= 0 /\ last > first
      THEN [found |-> TRUE, text |-> Substring(cleaned, first, last + 1)]
      ELSE [found |-> FALSE, text |-> <<>>]

----------------------------------------------------------------------------
(* manualJSONParse: thread-optimizer.js 102-138                            *)

\* String.prototype.split(sep) for a non-empty separator
RECURSIVE SplitBy(_, _)
SplitBy(s, sep) ==
  LET i == IndexOf(s, sep)
  IN  IF i = -1 THEN <<s>>
      ELSE <<Substring(s, 0, i)>> \o SplitBy(SubstringFrom(s, i + Len(sep)), sep)

\* String.prototype.replace(/pat/g, rep) for a literal pattern
RECURSIVE ReplaceAll(_, _, _)
ReplaceAll(s, pat, rep) ==
  LET i == IndexOf(s, pat)
  IN  IF i = -1 THEN s
      ELSE Substring(s, 0, i) \o rep \o ReplaceAll(SubstringFrom(s, i + Len(pat)), pat, rep)

\* mutant of CleanPart: escaped quotes are left as they are
CleanPartKeepsEscapes(part, index, count) ==
  LET c1 == IF index = 0 /\ StartsWith(part, <<QUOTE>>) THEN SubstringFrom(part, 1) ELSE part
      c2 == IF index = count - 1 /\ EndsWith(c1, <<QUOTE>>)
            THEN Substring(c1, 0, Len(c1) - 1) ELSE c1
  IN  Trim(c2)

\* the map callback, lines 115-132 (index is 0-based)
CleanPart(part, index, count) ==
  LET c1 == IF index = 0 /\ StartsWith(part, <<QUOTE>>) THEN SubstringFrom(part, 1) ELSE part
      c2 == IF index = count - 1 /\ EndsWith(c1, <<QUOTE>>)
            THEN Substring(c1, 0, Len(c1) - 1) ELSE c1
  IN  Trim(ReplaceAll(c2, <<BSLASH, QUOTE>>, <<QUOTE>>))

\* isNull = TRUE stands for the null result
manualJSONParse(jsonString) ==
  LET t0 == Trim(jsonString)
      t1 == IF StartsWith(t0, <<LBRACK>>) THEN SubstringFrom(t0, 1) ELSE t0
      t2 == IF EndsWith(t1, <<RBRACK>>) THEN Substring(t1, 0, Len(t1) - 1) ELSE t1
      content == Trim(t2)
      parts == SplitBy(content, <<QUOTE, COMMA, SP, QUOTE>>)
      tweets == [k \in 1..Len(parts) |-> CleanPart(parts[k], k - 1, Len(parts))]
      filtered == SelectSeq(tweets, LAMBDA t : Len(t) > 0)
  IN  [isNull |-> Len(filtered) = 0, tweets |-> filtered]

----------------------------------------------------------------------------
(* parseThreadJSON: thread-optimizer.js 37-94                              *)

\* mutant of TryParse: no try block, the SyntaxError leaves parseThreadJSON
TryParseNoCatch(text) ==
  LET r == JSONParse(text)
  IN  [threw |-> r.threw,
       accepted |-> ~r.threw /\ r.isStringArray,
       value |-> IF ~r.threw /\ r.isStringArray THEN r.value ELSE <<>>]

\* what JSON.parse does inside a try block whose catch falls through: a thrown
\* SyntaxError is absorbed and leaves the strategy without a result
TryParse(text) ==
  LET r == JSONParse(text)
  IN  [threw |-> FALSE,
       accepted |-> ~r.threw /\ r.isStringArray,
       value |-> IF ~r.threw /\ r.isStringArray THEN r.value ELSE <<>>]

Bracketed(rawContent) ==
  StartsWith(rawContent, <<LBRACK>>) /\ EndsWith(rawContent, <<RBRACK>>)

\* mutant of parseThreadJSON: the fallback returns the trimmed text
parseThreadJSONTrimsFallback(rawContent) ==
  LET s1 == IF Bracketed(rawContent) THEN TryParse(rawContent)
            ELSE [threw |-> FALSE, accepted |-> FALSE, value |-> <<>>]
      extracted == extractJSON(rawContent)
      s2 == IF extracted.found THEN TryParse(extracted.text)
            ELSE [threw |-> FALSE, accepted |-> FALSE, value |-> <<>>]
      s3 == IF Bracketed(rawContent) THEN manualJSONParse(rawContent)
            ELSE [isNull |-> TRUE, tweets |-> <<>>]
  IN  IF s1.accepted
      THEN [threw |-> FALSE, success |-> TRUE, isThread |-> TRUE,
            content |-> s1.value, text |-> <<>>, strategy |-> 1]
      ELSE IF s2.accepted
      THEN [threw |-> FALSE, success |-> TRUE, isThread |-> TRUE,
            content |-> s2.value, text |-> <<>>, strategy |-> 2]
      ELSE IF ~s3.isNull /\ Len(s3.tweets) > 0
      THEN [threw |-> FALSE, success |-> TRUE, isThread |-> TRUE,
            content |-> s3.tweets, text |-> <<>>, strategy |-> 3]
      ELSE [threw |-> FALSE, success |-> FALSE, isThread |-> FALSE,
            content |-> <<>>, text |-> Trim(rawContent), strategy |-> 4]

\* mutant of parseThreadJSON: the manual parser is tried before JSON.parse
parseThreadJSONManualFirst(rawContent) ==
  LET s1 == IF Bracketed(rawContent) THEN TryParse(rawContent)
            ELSE [threw |-> FALSE, accepted |-> FALSE, value |-> <<>>]
      extracted == extractJSON(rawContent)
      s2 == IF extracted.found THEN TryParse(extracted.text)
            ELSE [threw |-> FALSE, accepted |-> FALSE, value |-> <<>>]
      s3 == IF Bracketed(rawContent) THEN manualJSONParse(rawContent)
            ELSE [isNull |-> TRUE, tweets |-> <<>>]
  IN  IF ~s3.isNull /\ Len(s3.tweets) > 0
      THEN [threw |-> FALSE, success |-> TRUE, isThread |-> TRUE,
            content |-> s3.tweets, text |-> <<>>, strategy |-> 3]
      ELSE IF s1.accepted
      THEN [threw |-> FALSE, success |-> TRUE, isThread |-> TRUE,
            content |-> s1.value, text |-> <<>>, strategy |-> 1]
      ELSE IF s2.accepted
      THEN [threw |-> FALSE, success |-> TRUE, isThread |-> TRUE,
            content |-> s2.value, text |-> <<>>, strategy |-> 2]
      ELSE [threw |-> FALSE, success |-> FALSE, isThread |-> FALSE,
            content |-> <<>>, text |-> rawContent, strategy |-> 4]

\* content holds the array when isThread, text holds the string otherwise;
\* threw = an exception left the function
parseThreadJSON(rawContent) ==
  LET s1 == IF Bracketed(rawContent) THEN TryParse(rawContent)
            ELSE [threw |-> FALSE, accepted |-> FALSE, value |-> <<>>]
      extracted == extractJSON(rawContent)
      s2 == IF extracted.found THEN TryParse(extracted.text)
            ELSE [threw |-> FALSE, accepted |-> FALSE, value |-> <<>>]
      s3 == IF Bracketed(rawContent) THEN manualJSONParse(rawContent)
            ELSE [isNull |-> TRUE, tweets |-> <<>>]
  IN  IF s1.threw \/ (~s1.accepted /\ s2.threw)
      THEN [threw |-> TRUE, success |-> FALSE, isThread |-> FALSE,
            content |-> <<>>, text |-> <<>>, strategy |-> 0]
      ELSE IF s1.accepted
      THEN [threw |-> FALSE, success |-> TRUE, isThread |-> TRUE,
            content |-> s1.value, text |-> <<>>, strategy |-> 1]
      ELSE IF s2.accepted
      THEN [threw |-> FALSE, success |-> TRUE, isThread |-> TRUE,
            content |-> s2.value, text |-> <<>>, strategy |-> 2]
      ELSE IF ~s3.isNull /\ Len(s3.tweets) > 0
      THEN [threw |-> FALSE, success |-> TRUE, isThread |-> TRUE,
            content |-> s3.tweets, text |-> <<>>, strategy |-> 3]
      ELSE [threw |-> FALSE, success |-> FALSE, isThread |-> FALSE,
            content |-> <<>>, text |-> rawContent, strategy |-> 4]

----------------------------------------------------------------------------
(* optimizeThread: thread-optimizer.js 338-425, one action per step        *)

VARIABLES
  rawContent,     \* the argument rawContent
  options,        \* the argument options, defaults applied
  pc,             \* the step optimizeThread is at
  parsed,         \* const parsed (line 346)
  tweets,         \* let tweets (line 374)
  modifications,  \* const modifications (line 375)
  result,         \* the returned object
  outcome,        \* "none", "returned", "threw" or "hang"
  run,            \* 1 for the first call, 2 for the call on the re-encoded result
  firstResult,    \* the result of the first call, kept for the second
  content,          \* twitter.js: the argument of publishToTwitter
  credentials,      \* twitter.js: the four credentials are set in the environment
  ppc,              \* twitter.js: the await publishToTwitter is at
  processedContent, \* twitter.js: let processedContent (line 309)
  postedTweets,     \* twitter.js: const postedTweets (line 133)
  lastTweetId,      \* twitter.js: let lastTweetId (line 134), 0 for null
  loopIndex,        \* twitter.js: the loop variable i (line 142)
  calls,            \* the calls of client.v2.tweet made so far, in order
  published         \* what publishToTwitter returned or threw

pubVars == <<content, credentials, ppc, processedContent, postedTweets,
             lastTweetId, loopIndex, calls, published>>

vars == <<rawContent, options, pc, parsed, tweets, modifications, result,
          outcome, run, firstResult, content, credentials, ppc,
          processedContent, postedTweets, lastTweetId, loopIndex, calls, published>>

optVars == <<rawContent, options, pc, parsed, tweets, modifications, result,
             outcome, run, firstResult>>

DefaultMinTweetLength == 100
DefaultMaxTweetLength == 280

NoParsed == [threw |-> FALSE, success |-> FALSE, isThread |-> FALSE,
             content |-> <<>>, text |-> <<>>, strategy |-> 0]

\* absent metadata fields are -1; content holds the array of a thread result,
\* text the string of a single result
NoResult == [isThread |-> FALSE, content |-> <<>>, text |-> <<>>,
             originalFormat |-> "none", modifications |-> <<>>,
             tweetCount |-> -1, originalTweetCount |-> -1]

\* a value handed to the publisher: a string with its text, or a value of
\* another type (null, a number)
Str(t) == [isString |-> TRUE, text |-> t]
NonString == [isString |-> FALSE, text |-> <<>>]

\* the argument of publishToTwitter: an array of values, a string, or a value
\* that is neither
ArrayContent(items) == [kind |-> "array", items |-> items, text |-> <<>>]
StringContent(t) == [kind |-> "string", items |-> <<>>, text |-> t]
OtherContent == [kind |-> "other", items |-> <<>>, text |-> <<>>]
NoContent == [kind |-> "none", items |-> <<>>, text |-> <<>>]

\* absent fields are 0; tweets holds the tweet data of a thread result
NoPublished == [outcome |-> "none", success |-> FALSE, partial |-> FALSE,
                type |-> "none", tweets |-> <<>>, tweetId |-> 0,
                failedAt |-> 0, totalTweets |-> 0, error |-> "none"]

\* publishToTwitter has not been called
PublisherIdle ==
  /\ content = NoContent
  /\ credentials = FALSE
  /\ ppc = "idle"
  /\ processedContent = NoContent
  /\ postedTweets = <<>>
  /\ lastTweetId = 0
  /\ loopIndex = 0
  /\ calls = <<>>
  /\ published = NoPublished

\* Step 1 (line 346): parse
ParseStep ==
  /\ pc = "start"
  /\ parsed' = parseThreadJSON(rawContent)
  /\ IF parsed'.threw
     THEN pc' = "done" /\ outcome' = "threw"
     ELSE /\ pc' = IF ~parsed'.success \/ ~parsed'.isThread THEN "single" ELSE "compress"
          /\ outcome' = outcome
  /\ UNCHANGED <<rawContent, options, tweets, modifications, result, run, firstResult>>
  /\ UNCHANGED pubVars

\* the single-text path with the merger run over the pieces of the split
SingleTweetMerges ==
  /\ pc = "single"
  /\ LET split == smartSplitRun(parsed.text, options.maxTweetLength)
         merged == mergeShortTweets(split.chunks, options.minTweetLength)
     IN  IF Len(parsed.text) > options.maxTweetLength
         THEN IF split.hang
              THEN outcome' = "hang" /\ result' = result
              ELSE /\ outcome' = "returned"
                   /\ result' = [isThread |-> TRUE, content |-> merged, text |-> <<>>,
                                 originalFormat |-> "single",
                                 modifications |-> <<"split_long_tweet">>,
                                 tweetCount |-> Len(merged),
                                 originalTweetCount |-> -1]
         ELSE /\ outcome' = "returned"
              /\ result' = [isThread |-> FALSE, content |-> <<>>, text |-> parsed.text,
                            originalFormat |-> "single", modifications |-> <<>>,
                            tweetCount |-> -1, originalTweetCount |-> -1]
  /\ pc' = "done"
  /\ UNCHANGED <<rawContent, options, parsed, tweets, modifications, run, firstResult>>
  /\ UNCHANGED pubVars

\* lines 348-371: not a thread, validate the length of the single tweet
SingleTweet ==
  /\ pc = "single"
  /\ LET split == smartSplitRun(parsed.text, options.maxTweetLength)
     IN  IF Len(parsed.text) > options.maxTweetLength
         THEN IF split.hang
              THEN outcome' = "hang" /\ result' = result
              ELSE /\ outcome' = "returned"
                   /\ result' = [isThread |-> TRUE, content |-> split.chunks, text |-> <<>>,
                                 originalFormat |-> "single",
                                 modifications |-> <<"split_long_tweet">>,
                                 tweetCount |-> Len(split.chunks),
                                 originalTweetCount |-> -1]
         ELSE /\ outcome' = "returned"
              /\ result' = [isThread |-> FALSE, content |-> <<>>, text |-> parsed.text,
                            originalFormat |-> "single", modifications |-> <<>>,
                            tweetCount |-> -1, originalTweetCount |-> -1]
  /\ pc' = "done"
  /\ UNCHANGED <<rawContent, options, parsed, tweets, modifications, run, firstResult>>
  /\ UNCHANGED pubVars

\* Step 2 (lines 373-392): should it even be a thread
CompressCheck ==
  /\ pc = "compress"
  /\ tweets' = parsed.content
  /\ modifications' = <<>>
  /\ LET threadCheck == shouldBeThread(parsed.content)
     IN  IF /\ options.autoCompress
            /\ ~threadCheck.shouldBeThread
            /\ threadCheck.hasAlternative
            /\ Len(threadCheck.alternativeSingle) > 0
         THEN /\ result' = [isThread |-> FALSE, content |-> <<>>,
                            text |-> threadCheck.alternativeSingle,
                            originalFormat |-> "thread",
                            modifications |-> <<"compressed_to_single">>,
                            tweetCount |-> -1,
                            originalTweetCount |-> Len(parsed.content)]
              /\ outcome' = "returned"
              /\ pc' = "done"
         ELSE /\ pc' = "split"
              /\ UNCHANGED <<result, outcome>>
  /\ UNCHANGED <<rawContent, options, parsed, run, firstResult>>
  /\ UNCHANGED pubVars

\* the split step entered on any issue the validator reports, whatever the
\* configured maximum
SplitStepOnAnyIssue ==
  /\ pc = "split"
  /\ LET validation == validateTweetLengths(tweets)
     IN  IF ~validation.valid
         THEN /\ tweets' = splitLongTweets(tweets)
              /\ modifications' = Append(modifications, "split_long_tweets")
         ELSE UNCHANGED <<tweets, modifications>>
  /\ pc' = "merge"
  /\ UNCHANGED <<rawContent, options, parsed, result, outcome, run, firstResult>>
  /\ UNCHANGED pubVars

\* Step 3 (lines 394-402): split any tweets that are too long
SplitStep ==
  /\ pc = "split"
  /\ LET validation == validateTweetLengths(tweets)
         tooLong == \E i \in 1..Len(tweets) :
                       validation.analysis[i].length > options.maxTweetLength
     IN  IF ~validation.valid /\ tooLong
         THEN /\ tweets' = splitLongTweets(tweets)
              /\ modifications' = Append(modifications, "split_long_tweets")
         ELSE UNCHANGED <<tweets, modifications>>
  /\ pc' = "merge"
  /\ UNCHANGED <<rawContent, options, parsed, result, outcome, run, firstResult>>
  /\ UNCHANGED pubVars

\* Step 4 (lines 404-409): merge short tweets
MergeStep ==
  /\ pc = "merge"
  /\ LET tooShort == \E i \in 1..Len(tweets) :
                        Len(tweets[i]) < options.minTweetLength /\ (i - 1) < Len(tweets) - 1
     IN  IF tooShort
         THEN /\ tweets' = mergeShortTweets(tweets, options.minTweetLength)
              /\ modifications' = Append(modifications, "merged_short_tweets")
         ELSE UNCHANGED <<tweets, modifications>>
  /\ pc' = "final"
  /\ UNCHANGED <<rawContent, options, parsed, result, outcome, run, firstResult>>
  /\ UNCHANGED pubVars

\* Step 5 (lines 411-424): final validation and return
FinalStep ==
  /\ pc = "final"
  /\ result' = [isThread |-> TRUE, content |-> tweets, text |-> <<>>,
                originalFormat |-> "thread", modifications |-> modifications,
                tweetCount |-> Len(tweets),
                originalTweetCount |-> Len(parsed.content)]
  /\ outcome' = "returned"
  /\ pc' = "done"
  /\ UNCHANGED <<rawContent, options, parsed, tweets, modifications, run, firstResult>>
  /\ UNCHANGED pubVars

\* the returned content, encoded in the shape it came in, is optimized again
\* with the same options
Reoptimize ==
  /\ pc = "done"
  /\ run = 1
  /\ outcome = "returned"
  /\ rawContent' = IF result.isThread THEN JSONStringify(result.content) ELSE result.text
  /\ firstResult' = result
  /\ run' = 2
  /\ pc' = "start"
  /\ parsed' = NoParsed
  /\ tweets' = <<>>
  /\ modifications' = <<>>
  /\ result' = NoResult
  /\ outcome' = "none"
  /\ UNCHANGED options
  /\ UNCHANGED pubVars

Next ==
  \/ ParseStep
  \/ SingleTweet
  \/ CompressCheck
  \/ SplitStep
  \/ MergeStep
  \/ FinalStep
  \/ Reoptimize

----------------------------------------------------------------------------
(* Inputs                                                                  *)

\* the options objects optimizeThread is called with
OptionsSet ==
  { [minTweetLength |-> DefaultMinTweetLength, maxTweetLength |-> DefaultMaxTweetLength,
     autoCompress |-> TRUE],
    [minTweetLength |-> DefaultMinTweetLength, maxTweetLength |-> DefaultMaxTweetLength,
     autoCompress |-> FALSE],
    [minTweetLength |-> 100, maxTweetLength |-> 200, autoCompress |-> TRUE],
    [minTweetLength |-> 50, maxTweetLength |-> 300, autoCompress |-> TRUE],
    [minTweetLength |-> 300, maxTweetLength |-> 200, autoCompress |-> TRUE] }

\* the options the short raw strings are run with
RawOptionsSet ==
  { [minTweetLength |-> DefaultMinTweetLength, maxTweetLength |-> DefaultMaxTweetLength,
     autoCompress |-> TRUE],
    [minTweetLength |-> 100, maxTweetLength |-> 200, autoCompress |-> TRUE] }

\* plain texts: two words joined by a separator
SegLens == {0, 60, 130, 170, 280, 300}
Seps == {<<>>, <<SP>>, <<DOT, SP>>, <<COMMA, SP>>, Rep(SP, 60)}
PlainTexts ==
  {Rep("x", n1) \o sep \o Rep("y", n2) : n1 \in SegLens, sep \in Seps, n2 \in SegLens}

\* plain texts with boundaries of two kinds
MixedTexts ==
  { Rep("x", 200) \o <<DOT, SP>> \o Rep("y", 40) \o <<COMMA, SP>> \o Rep("z", 100),
    Rep("x", 100) \o <<DOT, SP>> \o Rep("y", 100) \o <<COMMA, SP>> \o Rep("z", 150),
    Rep("x", 200) \o <<COMMA, SP>> \o Rep("y", 40) \o <<SP>> \o Rep("z", 100),
    Rep("x", 168) \o <<DOT, SP>> \o Rep("y", 30) \o <<COMMA, SP>> \o Rep("z", 150) }

\* the units the array encodings are made of
ThreadUnits ==
  { Rep("x", 40),
    Rep("x", 90),
    Rep("y", 120),
    Rep("y", 250),
    Rep("x", 200) \o <<DOT, SP>> \o Rep("z", 108),
    <<>> }

MaxTweets == 3
MaxRawLen == 3

RECURSIVE SeqsUpTo(_, _)
SeqsUpTo(S, n) ==
  IF n = 0 THEN {<<>>}
  ELSE LET shorter == SeqsUpTo(S, n - 1)
       IN  shorter \cup {Append(q, e) : q \in {r \in shorter : Len(r) = n - 1}, e \in S}

\* well-formed array encodings of up to MaxTweets units
ThreadTexts == {JSONStringify(units) : units \in SeqsUpTo(ThreadUnits, MaxTweets)}

\* every string of up to MaxRawLen characters
RawAlphabet == {LBRACK, RBRACK, QUOTE, BSLASH, COMMA, SP, DIGIT, "x"}
RawTexts == SeqsUpTo(RawAlphabet, MaxRawLen)

\* array encodings wrapped in code-fence markers or surrounded by prose
WrapArrays ==
  { <<Rep("y", 250), Rep("x", 90)>>,
    <<<<"x", RBRACK>>, <<LBRACK, "y">>>>,
    <<<<"x">>>> }
WrapPrefixes ==
  { <<>>,
    <<SP>>,
    FENCE \o <<"j", "s", "o", "n", NL>>,
    FENCE \o <<NL>>,
    <<"x", SP>>,
    <<LBRACK, DIGIT, RBRACK, SP>> }
WrapSuffixes ==
  { <<>>,
    <<NL>>,
    <<NL>> \o FENCE,
    <<SP, "x">>,
    <<SP, LBRACK, DIGIT, RBRACK>> }
WrappedTexts ==
  {pre \o JSONStringify(arr) \o post :
     pre \in WrapPrefixes, arr \in WrapArrays, post \in WrapSuffixes}

\* bracket-delimited texts whose items were written between quotes without
\* escaping, separated by comma and space
MalformedItems ==
  { <<"x">>,
    <<"x", SP, QUOTE, "y", QUOTE, SP, "z">>,
    <<"x", SP, BSLASH, QUOTE, "y", BSLASH, QUOTE, SP, "z">>,
    <<>>,
    <<SP>>,
    Rep("y", 120) \o <<SP, QUOTE, "x", QUOTE>> }

MaxItems == 2

RECURSIVE QuoteItems(_)
QuoteItems(items) ==
  IF items = <<>> THEN <<>>
  ELSE <<QUOTE>> \o items[1] \o <<QUOTE>>
       \o (IF Len(items) > 1 THEN <<COMMA, SP>> ELSE <<>>) \o QuoteItems(Tail(items))

MalformedTexts ==
  {<<LBRACK>> \o QuoteItems(items) \o <<RBRACK>> : items \in SeqsUpTo(MalformedItems, MaxItems)}

Init ==
  /\ \/ rawContent \in PlainTexts \cup MixedTexts \cup ThreadTexts /\ options \in OptionsSet
     \/ rawContent \in RawTexts \cup WrappedTexts \cup MalformedTexts
        /\ options \in RawOptionsSet
  /\ pc = "start"
  /\ parsed = NoParsed
  /\ tweets = <<>>
  /\ modifications = <<>>
  /\ result = NoResult
  /\ outcome = "none"
  /\ run = 1
  /\ firstResult = NoResult
  /\ PublisherIdle

Spec == Init /\ [][Next]_vars

\* Configs with minTweetLength < maxTweetLength whose lengths are not positive
DegenerateOptionsSet ==
  { [minTweetLength |-> -1, maxTweetLength |-> 0, autoCompress |-> TRUE],
    [minTweetLength |-> -1, maxTweetLength |-> 0, autoCompress |-> FALSE] }

InitDegenerate ==
  /\ rawContent \in RawTexts
  /\ options \in DegenerateOptionsSet
  /\ pc = "start"
  /\ parsed = NoParsed
  /\ tweets = <<>>
  /\ modifications = <<>>
  /\ result = NoResult
  /\ outcome = "none"
  /\ run = 1
  /\ firstResult = NoResult
  /\ PublisherIdle

SpecDegenerate == InitDegenerate /\ [][Next]_vars

----------------------------------------------------------------------------
(* The publisher: adapters/publishers/twitter.js                           *)

POST_MAX == 280
THREAD_MAX == 280
MAX_TWEET_LENGTH == 280
AUTO_SPLIT_OVER == 280

PUNCT == {DOT, "!", "?"}

\* String.prototype.split(/(?<=[.!?])\s+/): cut at every run of whitespace
\* that follows a closing mark, the run dropped
RECURSIVE SplitSentences(_)
SplitSentences(s) ==
  LET starts == {p \in 2..Len(s) : s[p] \in WS /\ s[p - 1] \in PUNCT}
  IN  IF starts = {} THEN <<s>>
      ELSE LET p == CHOOSE q \in starts : \A r \in starts : q <= r
               after == IF \A j \in p..Len(s) : s[j] \in WS THEN Len(s) + 1
                        ELSE CHOOSE e \in p..Len(s) :
                               s[e] \notin WS /\ \A j \in p..(e - 1) : s[j] \in WS
           IN  <<SubSeq(s, 1, p - 1)>> \o SplitSentences(SubSeq(s, after, Len(s)))

\* the loop over the words of a sentence that is too long (lines 250-258)
RECURSIVE WordLoop(_, _, _, _)
WordLoop(words, k, chunk, out) ==
  IF k > Len(words) THEN [chunk |-> chunk, out |-> out]
  ELSE IF Len(chunk) + Len(words[k]) + 1 > MAX_TWEET_LENGTH
  THEN WordLoop(words, k + 1, words[k], Append(out, Trim(chunk)))
  ELSE WordLoop(words, k + 1,
                chunk \o (IF Len(chunk) > 0 THEN <<SP>> ELSE <<>>) \o words[k], out)

\* the loop over the sentences of a paragraph (lines 239-268)
RECURSIVE SentenceLoop(_, _, _, _)
SentenceLoop(sentences, k, currentTweet, out) ==
  IF k > Len(sentences) THEN [currentTweet |-> currentTweet, out |-> out]
  ELSE LET sentence == sentences[k]
       IN  IF Len(currentTweet) + Len(sentence) + 1 > MAX_TWEET_LENGTH
           THEN LET saved == IF Len(currentTweet) > 0
                             THEN Append(out, Trim(currentTweet)) ELSE out
                    hard == WordLoop(SplitBy(sentence, <<SP>>), 1, <<>>, saved)
                IN  IF Len(sentence) > MAX_TWEET_LENGTH
                    THEN SentenceLoop(sentences, k + 1, hard.chunk, hard.out)
                    ELSE SentenceLoop(sentences, k + 1, sentence, saved)
           ELSE SentenceLoop(sentences, k + 1,
                             currentTweet
                               \o (IF Len(currentTweet) > 0 THEN <<SP>> ELSE <<>>)
                               \o sentence,
                             out)

\* the loop over the paragraphs (lines 226-274)
RECURSIVE ParagraphLoop(_, _, _)
ParagraphLoop(paragraphs, k, out) ==
  IF k > Len(paragraphs) THEN out
  ELSE LET trimmed == Trim(paragraphs[k])
           rest == SentenceLoop(SplitSentences(trimmed), 1, <<>>, out)
       IN  IF Len(trimmed) <= MAX_TWEET_LENGTH
           THEN ParagraphLoop(paragraphs, k + 1, Append(out, trimmed))
           ELSE ParagraphLoop(paragraphs, k + 1,
                              IF Len(rest.currentTweet) > 0
                              THEN Append(rest.out, Trim(rest.currentTweet))
                              ELSE rest.out)

autoSplitIntoTweets(text) ==
  LET paragraphs == SelectSeq(SplitBy(text, <<NL, NL>>), LAMBDA p : Len(Trim(p)) > 0)
  IN  ParagraphLoop(paragraphs, 1, <<>>)

\* the checks of postTweet (lines 56-62): what is thrown, "none" if nothing
PostTweetCheck(c) ==
  IF ~c.isString \/ c.text = <<>> THEN "invalid"
  ELSE IF Len(c.text) > POST_MAX THEN "too_long"
  ELSE "none"

\* mutant of ThreadCheck: only the first tweet is checked
ThreadCheckFirstOnly(thread) ==
  IF ~thread[1].isString \/ thread[1].text = <<>> THEN "invalid"
  ELSE IF Len(thread[1].text) > 280 THEN "too_long"
  ELSE "none"

\* the checks of postThread over all tweets (lines 123-130): what the first
\* failing tweet makes it throw, "none" if every tweet passes
ThreadCheck(thread) ==
  LET failing == {k \in 1..Len(thread) :
                    \/ ~thread[k].isString
                    \/ thread[k].text = <<>>
                    \/ Len(thread[k].text) > THREAD_MAX}
      first == CHOOSE k \in failing : \A j \in failing : k <= j
  IN  IF failing = {} THEN "none"
      ELSE IF ~thread[first].isString \/ thread[first].text = <<>> THEN "invalid"
      ELSE "too_long"

Thrown(e) == [NoPublished EXCEPT !.outcome = "threw", !.error = e]

\* publishToTwitter up to its first await: lines 299-321 or 334, then
\* postThread lines 109-134 or postTweet lines 56-64
PublishStart ==
  /\ ppc = "start"
  /\ LET isThread == content.kind = "array"
         isSingleTweet == content.kind = "string"
         processed ==
           IF isSingleTweet /\ Len(content.text) > AUTO_SPLIT_OVER
           THEN LET split == autoSplitIntoTweets(content.text)
                IN  ArrayContent([k \in 1..Len(split) |-> Str(split[k])])
           ELSE content
         isNowThread == processed.kind = "array"
         single == IF isNowThread THEN processed.items[1] ELSE Str(processed.text)
         thrown ==
           IF ~isThread /\ ~isSingleTweet THEN "content"
           ELSE IF isNowThread /\ Len(processed.items) = 0 THEN "empty"
           ELSE IF isNowThread /\ Len(processed.items) > 1
                THEN IF ThreadCheck(processed.items) # "none"
                     THEN ThreadCheck(processed.items)
                     ELSE IF ~credentials THEN "credentials" ELSE "none"
           ELSE IF PostTweetCheck(single) # "none" THEN PostTweetCheck(single)
           ELSE IF ~credentials THEN "credentials" ELSE "none"
     IN  /\ processedContent' = IF ~isThread /\ ~isSingleTweet THEN NoContent ELSE processed
         /\ IF thrown # "none"
            THEN ppc' = "done" /\ published' = Thrown(thrown)
            ELSE /\ ppc' = IF isNowThread /\ Len(processed.items) > 1
                           THEN "thread_me" ELSE "single_post"
                 /\ published' = published
  /\ postedTweets' = <<>>
  /\ lastTweetId' = 0
  /\ loopIndex' = 0
  /\ UNCHANGED <<content, credentials, calls>>
  /\ UNCHANGED optVars

\* mutant of PartialFailure: failedAt is the number of tweets posted
PartialFailureCountsPosted(posted, failedAt, totalTweets) ==
  [NoPublished EXCEPT
     !.outcome = "returned", !.partial = TRUE, !.type = "thread",
     !.tweets = posted, !.failedAt = Len(posted), !.totalTweets = totalTweets,
     !.error = "partial"]

\* the error of lines 165-179 with its partial data, as publishToTwitter
\* returns it (lines 351-365)
PartialFailure(posted, failedAt, totalTweets) ==
  [NoPublished EXCEPT
     !.outcome = "returned", !.partial = TRUE, !.type = "thread",
     !.tweets = posted, !.failedAt = failedAt, !.totalTweets = totalTweets,
     !.error = "partial"]

\* postThread line 138: await client.v2.me(); a rejection is rethrown as a
\* plain error (lines 189-211)
ThreadMe ==
  /\ ppc = "thread_me"
  /\ \E ok \in BOOLEAN :
       IF ok
       THEN ppc' = "thread_post" /\ published' = published
       ELSE ppc' = "done" /\ published' = Thrown("api")
  /\ UNCHANGED <<content, credentials, processedContent, postedTweets,
                 lastTweetId, loopIndex, calls>>
  /\ UNCHANGED optVars

\* mutant of ThreadPost: no tweet is posted as a reply
ThreadPostNoReply ==
  /\ ppc = "thread_post"
  /\ loopIndex < Len(processedContent.items)
  /\ \E ok \in BOOLEAN :
       LET tweetContent == processedContent.items[loopIndex + 1]
           id == Len(calls) + 1
           tweetData == [id |-> id, text |-> tweetContent.text, position |-> loopIndex + 1]
       IN  /\ calls' = Append(calls, [text |-> tweetContent.text, replyTo |-> 0,
                                      ok |-> ok, id |-> IF ok THEN id ELSE 0])
           /\ IF ok
              THEN /\ postedTweets' = Append(postedTweets, tweetData)
                   /\ lastTweetId' = id
                   /\ loopIndex' = loopIndex + 1
                   /\ IF loopIndex + 1 = Len(processedContent.items)
                      THEN /\ ppc' = "done"
                           /\ published' = [NoPublished EXCEPT
                                              !.outcome = "returned", !.success = TRUE,
                                              !.type = "thread", !.tweets = postedTweets']
                      ELSE ppc' = "thread_post" /\ published' = published
              ELSE /\ ppc' = "done"
                   /\ published' = PartialFailure(postedTweets, loopIndex + 1,
                                                  Len(processedContent.items))
                   /\ UNCHANGED <<postedTweets, lastTweetId, loopIndex>>
  /\ UNCHANGED <<content, credentials, processedContent>>
  /\ UNCHANGED optVars

\* one iteration of the loop of postThread (lines 142-181) with its await of
\* client.v2.tweet; on the last tweet the return of lines 184-187 and of
\* publishToTwitter lines 322-347, on a rejection the catch of lines 163-180,
\* 189-193 and 349-366
ThreadPost ==
  /\ ppc = "thread_post"
  /\ loopIndex < Len(processedContent.items)
  /\ \E ok \in BOOLEAN :
       LET tweetContent == processedContent.items[loopIndex + 1]
           replyTo == IF lastTweetId # 0 THEN lastTweetId ELSE 0
           id == Len(calls) + 1
           tweetData == [id |-> id, text |-> tweetContent.text, position |-> loopIndex + 1]
       IN  /\ calls' = Append(calls, [text |-> tweetContent.text, replyTo |-> replyTo,
                                      ok |-> ok, id |-> IF ok THEN id ELSE 0])
           /\ IF ok
              THEN /\ postedTweets' = Append(postedTweets, tweetData)
                   /\ lastTweetId' = id
                   /\ loopIndex' = loopIndex + 1
                   /\ IF loopIndex + 1 = Len(processedContent.items)
                      THEN /\ ppc' = "done"
                           /\ published' = [NoPublished EXCEPT
                                              !.outcome = "returned", !.success = TRUE,
                                              !.type = "thread", !.tweets = postedTweets']
                      ELSE ppc' = "thread_post" /\ published' = published
              ELSE /\ ppc' = "done"
                   /\ published' = PartialFailure(postedTweets, loopIndex + 1,
                                                  Len(processedContent.items))
                   /\ UNCHANGED <<postedTweets, lastTweetId, loopIndex>>
  /\ UNCHANGED <<content, credentials, processedContent>>
  /\ UNCHANGED optVars

\* postTweet line 68: await client.v2.tweet(content); a rejection is
\* rethrown as a plain error (lines 78-99), which publishToTwitter throws on
SinglePost ==
  /\ ppc = "single_post"
  /\ \E ok \in BOOLEAN :
       LET text == IF processedContent.kind = "array"
                   THEN processedContent.items[1].text ELSE processedContent.text
           id == Len(calls) + 1
       IN  /\ calls' = Append(calls, [text |-> text, replyTo |-> 0,
                                      ok |-> ok, id |-> IF ok THEN id ELSE 0])
           /\ IF ok
              THEN ppc' = "single_me" /\ published' = published
              ELSE ppc' = "done" /\ published' = Thrown("api")
  /\ UNCHANGED <<content, credentials, processedContent, postedTweets,
                 lastTweetId, loopIndex>>
  /\ UNCHANGED optVars

\* postTweet line 71: await client.v2.me(), then the return of lines 73-77
\* and of postThread lines 116-119 and publishToTwitter lines 322-347
SingleMe ==
  /\ ppc = "single_me"
  /\ \E ok \in BOOLEAN :
       LET tweet == calls[Len(calls)]
       IN  IF ok
           THEN published' =
                  IF processedContent.kind = "array"
                  THEN [NoPublished EXCEPT
                          !.outcome = "returned", !.success = TRUE, !.type = "thread",
                          !.tweets = <<[id |-> tweet.id, text |-> tweet.text,
                                        position |-> 0]>>]
                  ELSE [NoPublished EXCEPT
                          !.outcome = "returned", !.success = TRUE, !.type = "single",
                          !.tweetId = tweet.id]
           ELSE published' = Thrown("api")
  /\ ppc' = "done"
  /\ UNCHANGED <<content, credentials, processedContent, postedTweets,
                 lastTweetId, loopIndex, calls>>
  /\ UNCHANGED optVars

NextPublish ==
  \/ PublishStart
  \/ ThreadMe
  \/ ThreadPost
  \/ SinglePost
  \/ SingleMe

\* the values the arrays handed to the publisher are made of
PublishUnits ==
  { Str(Rep("x", 40)),
    Str(Rep("y", 280)),
    Str(Rep("z", 281)),
    Str(<<>>),
    NonString }

MaxThread == 3

\* strings handed to the publisher
PublishStrings ==
  { <<>>,
    Rep("x", 40),
    Rep("y", 280),
    Rep("x", 300),
    Rep("x", 150) \o <<DOT, SP>> \o Rep("y", 150),
    Rep("x", 100) \o <<SP>> \o Rep("y", 100) \o <<SP>> \o Rep("z", 100),
    Rep("x", 200) \o <<NL, NL>> \o Rep("y", 200),
    Rep("x", 200) \o <<NL, NL>> \o Rep(SP, 100),
    Rep("x", 100) \o <<DOT, SP, SP>> \o Rep("y", 100) \o <<"?", NL>> \o Rep("z", 200)
      \o <<NL, NL>> \o Rep("x", 10) \o <<"!">> \o Rep("y", 280) }

ContentSet ==
  {ArrayContent(items) : items \in SeqsUpTo(PublishUnits, MaxThread)}
    \cup {StringContent(t) : t \in PublishStrings}
    \cup {OtherContent}

InitPublish ==
  /\ content \in ContentSet
  /\ credentials \in BOOLEAN
  /\ ppc = "start"
  /\ processedContent = NoContent
  /\ postedTweets = <<>>
  /\ lastTweetId = 0
  /\ loopIndex = 0
  /\ calls = <<>>
  /\ published = NoPublished
  /\ rawContent = <<>>
  /\ options = [minTweetLength |-> DefaultMinTweetLength,
                maxTweetLength |-> DefaultMaxTweetLength, autoCompress |-> TRUE]
  /\ pc = "idle"
  /\ parsed = NoParsed
  /\ tweets = <<>>
  /\ modifications = <<>>
  /\ result = NoResult
  /\ outcome = "none"
  /\ run = 1
  /\ firstResult = NoResult

SpecPublish == InitPublish /\ [][NextPublish]_vars

----------------------------------------------------------------------------
(* Properties                                                              *)

\* the Config invariant of the specification: minUnitLength < maxUnitLength
ValidConfig == options.minTweetLength < options.maxTweetLength

\* optimizeThread has returned a result
Returned == pc = "done" /\ outcome = "returned"

\* the maximal runs of non-whitespace characters of s, in order
RECURSIVE Words(_)
Words(s) ==
  LET t == Trim(s)
      ws == {i \in 1..Len(t) : t[i] \in WS}
  IN  IF t = <<>> THEN <<>>
      ELSE IF ws = {} THEN <<t>>
      ELSE <<SubSeq(t, 1, SetMin(ws) - 1)>> \o Words(SubSeq(t, SetMin(ws), Len(t)))

\* sum of the unit lengths plus one space per join
RECURSIVE SumLen(_)
SumLen(units) == IF units = <<>> THEN 0 ELSE Len(units[1]) + SumLen(Tail(units))
Total(units) == SumLen(units) + (IF Len(units) > 0 THEN Len(units) - 1 ELSE 0)

\* C1: every unit of a returned Sequence is at most maxTweetLength long, for
\* every valid Config, on the single-unit split path and on the sequence path
C1_SplitInvariant ==
  (Returned /\ ValidConfig /\ result.isThread)
    => \A i \in 1..Len(result.content) :
         Len(result.content[i]) <= options.maxTweetLength

\* C2: a returned Single (opaque text or collapsed sequence) is never longer
\* than maxTweetLength, for every valid Config
C2_SingleWithinMax ==
  (Returned /\ ValidConfig /\ ~result.isThread)
    => Len(result.text) <= options.maxTweetLength

C4_NonEmptyContent ==
  (Returned /\ ValidConfig)
    => IF result.isThread THEN Len(result.content) > 0 ELSE Len(result.text) > 0

\* C5: with minTweetLength >= maxTweetLength optimizeThread raises an error
\* before the parser runs and returns no result
C5_RejectsInvalidConfig ==
  (~ValidConfig /\ pc # "start") => (outcome = "threw" /\ parsed = NoParsed)

\* C6: every unit the merge step creates by joining two adjacent units with
\* one space is at most maxTweetLength long, for every valid Config
C6_MergeInvariant ==
  [][(pc = "merge" /\ ValidConfig)
       => \A i \in 1..Len(tweets') :
            (\E j \in 1..(Len(tweets) - 1) :
                tweets'[i] = tweets[j] \o <<SP>> \o tweets[j + 1])
              => Len(tweets'[i]) <= options.maxTweetLength]_vars

\* C7 (as claimed): joining the pieces of a split unit with one space at each
\* cut reproduces the unit, up to whitespace at the cuts and at its ends
C7_RejoinReproduces ==
  (Returned /\ ValidConfig /\ result.isThread /\ result.originalFormat = "single")
    => Words(JoinSpace(result.content)) = Words(parsed.text)

\* every way of joining the pieces with a space or with nothing at each cut
RECURSIVE Joinings(_)
Joinings(pieces) ==
  IF Len(pieces) <= 1 THEN {Flatten(pieces)}
  ELSE LET rest == Joinings(Tail(pieces))
       IN  {pieces[1] \o r : r \in rest} \cup {pieces[1] \o <<SP>> \o r : r \in rest}

\* C7 (amended): the pieces of a split unit, joined with one space at each cut
\* that fell on whitespace and with nothing at a cut made inside a word,
\* reproduce the unit up to whitespace at the cuts and at its ends; no
\* non-whitespace character is added, lost or moved
C7_RejoinUpToForcedCuts ==
  (Returned /\ ValidConfig /\ result.isThread /\ result.originalFormat = "single")
    => /\ \E joined \in Joinings(result.content) : Words(joined) = Words(parsed.text)
       /\ StripWS(Flatten(result.content)) = StripWS(parsed.text)

\* C7 witness: a unit was cut inside a word, at exactly maxTweetLength
C7_Witness ==
  /\ Returned /\ ValidConfig /\ result.isThread /\ result.originalFormat = "single"
  /\ Len(result.content) >= 2
  /\ Len(result.content[1]) = options.maxTweetLength
  /\ Words(JoinSpace(result.content)) # Words(parsed.text)

\* C8: for a parsed sequence that is not collapsed, the returned units
\* concatenated in order equal the parsed units concatenated in order, all
\* whitespace removed
C8_SequenceContentKept ==
  (Returned /\ result.isThread /\ result.originalFormat = "thread")
    => StripWS(Flatten(result.content)) = StripWS(Flatten(parsed.content))

\* C8 witness: a returned sequence in which a unit was split and two units
\* were merged into one
C8_Witness ==
  /\ Returned /\ result.isThread /\ result.originalFormat = "thread"
  /\ result.modifications = <<"split_long_tweets", "merged_short_tweets">>
  /\ Len(splitLongTweets(parsed.content)) > Len(parsed.content)
  /\ LET pieces == splitLongTweets(parsed.content)
     IN  \E i \in 1..Len(result.content), j \in 1..(Len(pieces) - 1) :
           result.content[i] = pieces[j] \o <<SP>> \o pieces[j + 1]

\* C9: optimizing the re-encoded result of a call again, with the same valid
\* Config, records no transformation
C9_Idempotent ==
  (run = 2 /\ Returned /\ ValidConfig) => result.modifications = <<>>

\* C10: a parsed sequence of n units is returned as a Single exactly when
\* autoCompress is on and (n >= 2 and total <= 240, or n = 2 and total <= 260);
\* the Single is the units joined by single spaces, with transformations
\* [compressed_to_single] and originalTweetCount n
C10_CollapseDecision ==
  (Returned /\ result.originalFormat = "thread")
    => LET n == Len(parsed.content)
           total == Total(parsed.content)
           collapse == /\ options.autoCompress
                       /\ \/ n >= 2 /\ total <= 240
                          \/ n = 2 /\ total <= 260
       IN  /\ ~result.isThread <=> collapse
           /\ ~result.isThread =>
                /\ result.text = JoinSpace(parsed.content)
                /\ Len(result.text) = total
                /\ result.modifications = <<"compressed_to_single">>
                /\ result.originalTweetCount = n
           /\ result.isThread =>
                /\ result.originalTweetCount = n
                /\ "compressed_to_single" \notin {result.modifications[k] :
                                                    k \in 1..Len(result.modifications)}

\* C10 witness: two units whose total lies between the two thresholds were
\* collapsed
C10_Witness ==
  /\ Returned /\ result.originalFormat = "thread" /\ ~result.isThread
  /\ Len(parsed.content) = 2
  /\ Total(parsed.content) > 240

\* C11: parseThreadJSON never throws, and when none of its three strategies
\* succeeds it returns success = false with the raw text exactly as given
C11_FallbackVerbatim ==
  pc # "start"
    => /\ ~parsed.threw
       /\ (/\ ~(Bracketed(rawContent) /\ TryParse(rawContent).accepted)
           /\ ~(extractJSON(rawContent).found
                  /\ TryParse(extractJSON(rawContent).text).accepted)
           /\ ~(Bracketed(rawContent) /\ ~manualJSONParse(rawContent).isNull))
          => /\ ~parsed.success
             /\ ~parsed.isThread
             /\ parsed.text = rawContent

\* C11 witness: the fallback returned a text that begins or ends with
\* whitespace and holds a bracket, untouched
C11_Witness ==
  /\ pc # "start" /\ run = 1
  /\ ~parsed.success /\ ~parsed.threw
  /\ parsed.text = rawContent
  /\ Trim(rawContent) # rawContent
  /\ \E i \in 1..Len(rawContent) : rawContent[i] \in {LBRACK, RBRACK}

\* C12: for every string and every Config with minTweetLength < maxTweetLength
\* optimizeThread comes to an end: no iteration of smartSplit's while loop
\* leaves the remaining text as it was
C12_Terminates ==
  ValidConfig => outcome # "hang"

\* C13: whenever the trimmed text is a well-formed encoding of an array of
\* strings, parseThreadJSON returns exactly the decoded array, from one of the
\* two decoding strategies and not from the manual parser
C13_StrictDecodeWins ==
  LET decoded == JSONParse(Trim(rawContent))
  IN  (pc # "start" /\ ~decoded.threw /\ decoded.isStringArray)
        => /\ parsed.success
           /\ parsed.isThread
           /\ parsed.content = decoded.value
           /\ parsed.strategy \in {1, 2}

\* C13 witness: an encoding of two units with whitespace around it was
\* decoded, where the manual parser would have returned something else
C13_Witness ==
  /\ pc # "start" /\ run = 1
  /\ Trim(rawContent) # rawContent
  /\ ~JSONParse(Trim(rawContent)).threw
  /\ parsed.isThread
  /\ Len(parsed.content) = 2
  /\ parsed.content = JSONParse(Trim(rawContent)).value
  /\ manualJSONParse(Trim(rawContent)).tweets # parsed.content

\* C14: the manual parser produces the result only for a bracket-delimited
\* text JSON.parse rejects; a text JSON.parse decodes to something other than
\* an array of strings is returned as the single opaque text
C14_HeuristicOnlyAfterFailure ==
  pc # "start"
    => /\ parsed.strategy = 3 => (Bracketed(rawContent) /\ JSONParse(rawContent).threw)
       /\ (~JSONParse(rawContent).threw /\ ~JSONParse(rawContent).isStringArray)
            => (~parsed.success /\ ~parsed.isThread /\ parsed.text = rawContent)

\* s without each backslash that stands right before a quote
DropQuoteEscapes(s) ==
  LET dropped == {i \in 1..(Len(s) - 1) : s[i] = BSLASH /\ s[i + 1] = QUOTE}
      Before(i) == Cardinality({j \in dropped : j < i})
  IN  [k \in 1..(Len(s) - Cardinality(dropped)) |->
         s[CHOOSE i \in k..Len(s) : i \notin dropped /\ i - Before(i) = k]]

\* the elements of a bracket-delimited text: the interior split on
\* quote-comma-space-quote, the first element without its leading quote, the
\* last without its trailing quote, escaped quotes turned into quotes, each
\* element trimmed if `trimmed`, empty elements dropped
HeuristicElements(raw, trimmed) ==
  LET interior == Trim(SubSeq(raw, 2, Len(raw) - 1))
      parts == SplitBy(interior, <<QUOTE, COMMA, SP, QUOTE>>)
      n == Len(parts)
      Element(k) ==
        LET p == parts[k]
            a == IF k = 1 /\ Len(p) > 0 /\ p[1] = QUOTE THEN Tail(p) ELSE p
            b == IF k = n /\ Len(a) > 0 /\ a[Len(a)] = QUOTE
                 THEN SubSeq(a, 1, Len(a) - 1) ELSE a
        IN  IF trimmed THEN Trim(DropQuoteEscapes(b)) ELSE DropQuoteEscapes(b)
  IN  SelectSeq([k \in 1..n |-> Element(k)], LAMBDA e : e # <<>>)

\* the manual parser has run: the text is bracket-delimited and was not decoded
HeuristicRan == pc # "start" /\ Bracketed(rawContent) /\ ~TryParse(rawContent).accepted

\* C15 (as claimed): the manual parser returns the interior split on the
\* separator, edge quotes stripped, escaped quotes turned into quotes, empty
\* elements dropped, in order, and succeeds iff an element remains
C15_HeuristicElements ==
  HeuristicRan
    => LET e == HeuristicElements(rawContent, FALSE)
       IN  /\ parsed.success <=> e # <<>>
           /\ parsed.success => (parsed.isThread /\ parsed.content = e)

\* C15 (amended): as claimed, and each element is also trimmed before the
\* empty ones are dropped, so that an element of whitespace alone is dropped
\* and no returned element begins or ends with whitespace
C15_HeuristicElementsTrimmed ==
  HeuristicRan
    => LET e == HeuristicElements(rawContent, TRUE)
       IN  /\ parsed.success <=> e # <<>>
           /\ parsed.success
                => /\ parsed.isThread
                   /\ parsed.content = e
                   /\ \A k \in 1..Len(parsed.content) :
                        /\ parsed.content[k] # <<>>
                        /\ Trim(parsed.content[k]) = parsed.content[k]

\* C15 witness: the manual parser returned two elements of a text with escaped
\* and unescaped quotes, and no escape is left in them
C15_Witness ==
  /\ HeuristicRan /\ run = 1
  /\ parsed.strategy = 3
  /\ Len(parsed.content) = 2
  /\ \E i \in 1..(Len(rawContent) - 1) : rawContent[i] = BSLASH /\ rawContent[i + 1] = QUOTE
  /\ \A k \in 1..2 : \A i \in 1..Len(parsed.content[k]) : parsed.content[k][i] # BSLASH
  /\ \E k \in 1..2 : \E i \in 1..Len(parsed.content[k]) : parsed.content[k][i] = QUOTE

\* C16: a text made of a well-formed encoding of an array of strings, with a
\* prefix and a suffix around it (code-fence markers, whitespace, prose), is
\* parsed to the array the encoding alone decodes to
C16_ExtractionEqualsStrict ==
  pc # "start"
    => \A pre \in WrapPrefixes, arr \in WrapArrays, post \in WrapSuffixes :
         rawContent = pre \o JSONStringify(arr) \o post
           => /\ parsed.success
              /\ parsed.isThread
              /\ parsed.content = JSONParse(JSONStringify(arr)).value

\* C17: validateTweetLengths, called from optimizeThread with a valid Config,
\* flags unit i tooLong iff its length > maxTweetLength and tooShort iff its
\* length < minTweetLength and i is not the last index, and returns the units
\* it was given
C17_ValidatorFollowsConfig ==
  (pc \in {"split", "final"} /\ ValidConfig)
    => LET validation == validateTweetLengths(tweets)
       IN  /\ validation.tweets = tweets
           /\ Len(validation.analysis) = Len(tweets)
           /\ \A i \in 1..Len(tweets) :
                /\ validation.analysis[i].length = Len(tweets[i])
                /\ validation.analysis[i].tooLong
                     <=> Len(tweets[i]) > options.maxTweetLength
                /\ validation.analysis[i].tooShort
                     <=> (Len(tweets[i]) < options.minTweetLength /\ i < Len(tweets))

\* the values of `remaining` at the start of each iteration of smartSplit's
\* while loop (lines 255-279), in order
RECURSIVE CutStates(_, _)
CutStates(remaining, maxLength) ==
  IF Len(remaining) > maxLength
  THEN LET rest == Trim(SubstringFrom(remaining, SplitIndex(remaining, maxLength)))
       IN  IF rest = remaining THEN <<remaining>>
           ELSE <<remaining>> \o CutStates(rest, maxLength)
  ELSE <<>>

\* a text that was not parsed as a thread has been split and returned
SplitReturned ==
  Returned /\ ValidConfig /\ result.isThread /\ result.originalFormat = "single"

\* 0-based indices of the marks of one kind that lie within the first
\* maxLength characters of r, at or after 60% of maxLength
EligibleMarks(r, mark, maxLength) ==
  {i \in 0..(maxLength - 1) : 10 * i >= 6 * maxLength /\ MatchAt(r, <<mark, SP>>, i)}

\* 0-based indices of the spaces of r a cut of at most maxLength characters
\* can be made at
SpaceCuts(r, maxLength) == {i \in 1..maxLength : MatchAt(r, <<SP>>, i)}

\* C18: each cut is made after the last eligible full stop followed by a
\* space within the first maxTweetLength characters; if there is none, after
\* the last such comma; if there is none, at the last space; otherwise at
\* maxTweetLength; the full stop or comma ends the earlier piece
C18_BoundaryPriority ==
  SplitReturned
    => LET m == options.maxTweetLength
           cuts == CutStates(parsed.text, m)
       IN  \A k \in 1..Len(cuts) :
             LET r == cuts[k]
                 periods == EligibleMarks(r, DOT, m)
                 commas == EligibleMarks(r, COMMA, m)
                 spaces == SpaceCuts(r, m)
                 piece == result.content[k]
             IN  /\ SplitIndex(r, m) =
                      IF periods # {} THEN SetMax(periods) + 1
                      ELSE IF commas # {} THEN SetMax(commas) + 1
                      ELSE IF spaces # {} THEN SetMax(spaces)
                      ELSE m
                 /\ periods # {} => piece[Len(piece)] = DOT
                 /\ (periods = {} /\ commas # {}) => piece[Len(piece)] = COMMA

\* 0-based indices, from 60% of maxLength up to maxLength, at which r has a
\* boundary of any kind
QualifyingCandidates(r, maxLength) ==
  {i \in 0..maxLength :
     /\ 10 * i >= 6 * maxLength
     /\ \/ MatchAt(r, <<DOT, SP>>, i)
        \/ MatchAt(r, <<COMMA, SP>>, i)
        \/ MatchAt(r, <<SP>>, i)}

\* C19: no cut is made before 60% of maxTweetLength, and when no boundary of
\* any kind lies at or after 60% the cut is made exactly at maxTweetLength
C19_SixtyPercentRule ==
  SplitReturned
    => LET m == options.maxTweetLength
           cuts == CutStates(parsed.text, m)
       IN  \A k \in 1..Len(cuts) :
             /\ 10 * SplitIndex(cuts[k], m) >= 6 * m
             /\ QualifyingCandidates(cuts[k], m) = {} => SplitIndex(cuts[k], m) = m

\* C20: a text longer than maxTweetLength and at most 1.6 times as long is
\* split into exactly two pieces; in a thread, splitting raises the unit
\* count by one for each unit of that length
C20_TwoPieces ==
  /\ (Returned /\ ValidConfig /\ result.originalFormat = "single"
        /\ Len(parsed.text) > options.maxTweetLength
        /\ 10 * Len(parsed.text) <= 16 * options.maxTweetLength)
       => (result.isThread /\ Len(result.content) = 2)
  /\ (pc = "merge" /\ ValidConfig
        /\ \A i \in 1..Len(parsed.content) :
              10 * Len(parsed.content[i]) <= 16 * options.maxTweetLength)
       => Len(tweets) = Len(parsed.content)
                          + Cardinality({i \in 1..Len(parsed.content) :
                                           Len(parsed.content[i]) > options.maxTweetLength})

\* one left-to-right pass that merges a unit with its successor exactly when
\* the unit is not the last, is shorter than minLen, and the two joined by one
\* space are at most cap long, and then goes on after the pair
RECURSIVE SinglePassMerge(_, _, _)
SinglePassMerge(units, minLen, cap) ==
  IF units = <<>> THEN <<>>
  ELSE IF /\ Len(units) >= 2
          /\ Len(units[1]) < minLen
          /\ Len(units[1]) + 1 + Len(units[2]) <= cap
  THEN <<units[1] \o <<SP>> \o units[2]>>
       \o SinglePassMerge(SubSeq(units, 3, Len(units)), minLen, cap)
  ELSE <<units[1]>> \o SinglePassMerge(Tail(units), minLen, cap)

\* C21: the merge step leaves the units a single left-to-right pass gives,
\* merging a unit with its successor exactly when it is not the last, is
\* shorter than minTweetLength and the pair joined by a space is at most
\* maxTweetLength long; units that are not merged are left unchanged
C21_SinglePassMerge ==
  [][(pc = "merge" /\ ValidConfig)
       => tweets' = SinglePassMerge(tweets, options.minTweetLength,
                                    options.maxTweetLength)]_vars

\* some unit but the last one is shorter than minLen
SomeNonLastShort(units, minLen) ==
  \E i \in 1..(Len(units) - 1) : Len(units[i]) < minLen

\* C22: on the thread path the modifications follow the order of the steps
\* and tell what ran: a collapsed result carries compressed_to_single alone;
\* otherwise split_long_tweets is recorded exactly when some parsed unit is
\* longer than maxTweetLength, merged_short_tweets is recorded after it
\* exactly when, after the split step, some unit but the last is shorter
\* than minTweetLength, and the result carries the list so built
C22_ModificationsTellWhatRan ==
  [][/\ (pc = "compress" /\ pc' = "done")
          => result'.modifications = <<"compressed_to_single">>
     /\ (pc = "split" /\ ValidConfig)
          => modifications' =
               IF \E i \in 1..Len(parsed.content) :
                     Len(parsed.content[i]) > options.maxTweetLength
               THEN <<"split_long_tweets">> ELSE <<>>
     /\ (pc = "merge" /\ ValidConfig)
          => modifications' =
               modifications \o
               (IF SomeNonLastShort(tweets, options.minTweetLength)
                THEN <<"merged_short_tweets">> ELSE <<>>)
     /\ pc = "final" => result'.modifications = modifications]_vars

\* C23: every returned result carries its counts: tweetCount is the number
\* of units delivered (the length of the array of a thread, 1 for a single
\* text), originalTweetCount is the number of units the parser produced (1
\* when it produced no array), and originalFormat is 'single' exactly when
\* the parser produced no array
C23_CountMetadata ==
  Returned =>
    /\ result.tweetCount = (IF result.isThread THEN Len(result.content) ELSE 1)
    /\ result.originalTweetCount =
         (IF parsed.isThread THEN Len(parsed.content) ELSE 1)
    /\ (result.originalFormat = "single") <=> ~parsed.isThread

\* every unit is at most maxLen long and every unit but the last at least
\* minLen
WithinConfig(units, minLen, maxLen) ==
  /\ \A i \in 1..Len(units) : Len(units[i]) <= maxLen
  /\ ~SomeNonLastShort(units, minLen)

\* C24: a parsed thread that is not collapsed, whose units are all at most
\* maxTweetLength long and, but for the last, at least minTweetLength long,
\* is returned as it was parsed: the same units in the same order, isThread
\* true, no modifications
C24_ValidThreadUnchanged ==
  (/\ Returned
   /\ parsed.isThread
   /\ result.modifications # <<"compressed_to_single">>
   /\ WithinConfig(parsed.content, options.minTweetLength, options.maxTweetLength))
    => /\ result.isThread
       /\ result.content = parsed.content
       /\ result.modifications = <<>>

\* a thread of several units within the configured lengths, which the
\* validator's fixed lengths find fault with, was returned
C24_Witness ==
  /\ Returned
  /\ parsed.isThread
  /\ Len(parsed.content) >= 2
  /\ WithinConfig(parsed.content, options.minTweetLength, options.maxTweetLength)
  /\ ~validateTweetLengths(parsed.content).valid
  /\ result.isThread
  /\ result.content = parsed.content
  /\ result.modifications = <<>>

\* C25: a text the parser did not read as an array is returned unchanged as
\* a single text with no modifications when it is at most maxTweetLength
\* long, and otherwise as the thread of the pieces smartSplit cuts it into,
\* with originalFormat 'single' and modifications [split_long_tweet]; the
\* collapse decision and the merge step are not run on it
C25_SinglePath ==
  /\ pc \in {"compress", "split", "merge", "final"} => parsed.isThread
  /\ (Returned /\ ~parsed.isThread) =>
       /\ tweets = <<>>
       /\ result.originalFormat = "single"
       /\ IF Len(parsed.text) <= options.maxTweetLength
          THEN /\ ~result.isThread
               /\ result.text = parsed.text
               /\ result.modifications = <<>>
          ELSE /\ result.isThread
               /\ result.content = smartSplit(parsed.text, options.maxTweetLength)
               /\ result.modifications = <<"split_long_tweet">>

\* a long text was returned as pieces which the collapse decision would
\* have joined again and the merger would have changed
C25_Witness ==
  /\ Returned
  /\ ~parsed.isThread
  /\ result.isThread
  /\ Len(result.content) >= 2
  /\ ~shouldBeThread(result.content).shouldBeThread
  /\ mergeShortTweets(result.content, options.minTweetLength) # result.content

\* C26: every returned result with isThread true holds at least two units
C26_ThreadHasTwoUnits ==
  (Returned /\ result.isThread) => Len(result.content) >= 2

\* C27: the merge step changes only where the units are cut: its output
\* joined with single spaces is the string its input joined with single
\* spaces gives, and the array it was handed (parsed.content, when nothing
\* was split) is left as it was
C27_MergeKeepsText ==
  [][pc = "merge" => /\ JoinSpace(tweets') = JoinSpace(tweets)
                     /\ parsed' = parsed]_vars

\* the merge step has joined two of three or more units
C27_Witness ==
  /\ pc = "final"
  /\ modifications = <<"merged_short_tweets">>
  /\ Len(tweets) >= 2
  /\ Len(tweets) < Len(parsed.content)
  /\ JoinSpace(tweets) = JoinSpace(parsed.content)

----------------------------------------------------------------------------
(* Properties of the publisher                                             *)

\* postThread was handed an array of two or more values
MultiUnitThread ==
  processedContent.kind = "array" /\ Len(processedContent.items) >= 2

\* C28: a thread of two or more tweets is posted as a chain in its order:
\* the k-th call of client.v2.tweet posts the k-th tweet, the first with no
\* reply target and each later one as a reply to the id returned for the one
\* before it, which was posted successfully; no tweet is skipped or posted
\* twice, and a successful result means all of them were posted
C28_DependentChain ==
  MultiUnitThread =>
    /\ Len(calls) <= Len(processedContent.items)
    /\ \A k \in 1..Len(calls) :
         /\ calls[k].text = processedContent.items[k].text
         /\ calls[k].replyTo = (IF k = 1 THEN 0 ELSE calls[k - 1].id)
         /\ k > 1 => calls[k - 1].ok /\ calls[k - 1].id # 0
    /\ published.success =>
         /\ Len(calls) = Len(processedContent.items)
         /\ calls[Len(calls)].ok

\* a thread of three tweets was posted to the end, the second as a reply to
\* the first and the third as a reply to the second
C28_Witness ==
  /\ ppc = "done"
  /\ published.success
  /\ Len(processedContent.items) = 3
  /\ Len(calls) = 3
  /\ calls[1].replyTo = 0
  /\ calls[2].replyTo = calls[1].id
  /\ calls[3].replyTo = calls[2].id
  /\ calls[3].replyTo # calls[2].replyTo

\* C29: when the posting of a thread fails at tweet f, the tweets before f
\* stay posted, nothing after f is attempted, and publishToTwitter returns
\* (does not throw) success false, partial true, failedAt f, totalTweets the
\* length of the thread, and in data.tweets the f-1 posted tweets in order
C29_PartialFailureReported ==
  (processedContent.kind = "array" /\ \E k \in 1..Len(calls) : ~calls[k].ok) =>
    LET f == Len(calls)
    IN  /\ ~calls[f].ok
        /\ \A k \in 1..(f - 1) : calls[k].ok
        /\ ppc = "done"
        /\ published.outcome = "returned"
        /\ ~published.success
        /\ published.partial
        /\ published.failedAt = f
        /\ published.totalTweets = Len(processedContent.items)
        /\ published.tweets =
             [k \in 1..(f - 1) |->
                [id |-> calls[k].id, text |-> processedContent.items[k].text,
                 position |-> k]]

\* C29, for threads of two or more tweets: when the posting fails at tweet
\* f, the tweets before f stay posted, nothing after f is attempted, and
\* publishToTwitter returns success false, partial true, failedAt f,
\* totalTweets the length of the thread, and the f-1 posted tweets in order
C29_PartialFailureMultiUnit ==
  (MultiUnitThread /\ \E k \in 1..Len(calls) : ~calls[k].ok) =>
    LET f == Len(calls)
    IN  /\ ~calls[f].ok
        /\ \A k \in 1..(f - 1) : calls[k].ok
        /\ ppc = "done"
        /\ published.outcome = "returned"
        /\ ~published.success
        /\ published.partial
        /\ published.failedAt = f
        /\ published.totalTweets = Len(processedContent.items)
        /\ published.tweets =
             [k \in 1..(f - 1) |->
                [id |-> calls[k].id, text |-> processedContent.items[k].text,
                 position |-> k]]

\* the third tweet of a thread of three was refused after the first two had
\* been posted
C29_Witness ==
  /\ ppc = "done"
  /\ Len(processedContent.items) = 3
  /\ Len(calls) = 3
  /\ calls[1].ok /\ calls[2].ok /\ ~calls[3].ok
  /\ published.partial
  /\ published.failedAt = 3
  /\ Len(published.tweets) = 2

\* a value the publisher does not accept as a tweet
InvalidUnit(u) == ~u.isString \/ u.text = <<>> \/ Len(u.text) > 280

\* C30: a thread of two or more values one of which is not a non-empty
\* string of at most 280 characters ends in an error with nothing posted:
\* no call of client.v2.tweet was made
C30_NothingPostedUnlessValid ==
  (MultiUnitThread
   /\ \E k \in 1..Len(processedContent.items) : InvalidUnit(processedContent.items[k]))
    => /\ calls = <<>>
       /\ ppc = "done"
       /\ published.outcome = "threw"
       /\ published.error \in {"invalid", "too_long"}

\* a thread whose last value alone is invalid was refused, with the
\* credentials set, before its valid first tweets were posted
C30_Witness ==
  /\ ppc = "done"
  /\ credentials
  /\ content.kind = "array"
  /\ Len(content.items) = 3
  /\ ~InvalidUnit(content.items[1])
  /\ ~InvalidUnit(content.items[2])
  /\ InvalidUnit(content.items[3])
  /\ calls = <<>>
  /\ published.outcome = "threw"

====
